---- MODULE Spec2Model ----
(***************************************************************************)
(* Subscription lifecycle of the meal-plan application: profile            *)
(* provisioning, subscription creation, redirect verification, webhook     *)
(* events, status polling, cancellation and resumption, over a local       *)
(* store (Profile, Subscription) and the payment provider's subscriptions. *)
(***************************************************************************)
EXTENDS Integers, Sequences, FiniteSets, TLC

VARIABLES
    now,        \* the wall clock, a calendar date <<year, month, day>>
    profiles,   \* table Profile: a set of rows
    subs,       \* table Subscription: rows in creation order (createdAt)
    rzp,        \* the payment provider's subscriptions, by identifier
    last,       \* the most recent step: operation, inputs, response, gateway calls
    ticks,      \* number of clock advances so far
    steps,      \* number of requests, provider moves and clock advances so far
    cp,         \* the create-profile requests in flight
    race,       \* two requests whose persistence steps interleave
    meal        \* the generate-mealplan request

vars == <<now, profiles, subs, rzp, last, ticks, steps, cp, race, meal>>

-----------------------------------------------------------------------------
(* Bounds *)

MaxSubs == 2
MaxTicks == 1
MaxSteps == 4
MaxProfileReqs == 3

-----------------------------------------------------------------------------
(* Calendar dates, as the JavaScript Date object normalises them *)

NoDate == <<0, 0, 0>>

IsLeap(y) == (y % 4 = 0 /\ y % 100 # 0) \/ y % 400 = 0

DaysInMonth(y, m) ==
    IF m = 2 THEN (IF IsLeap(y) THEN 29 ELSE 28)
    ELSE IF m \in {4, 6, 9, 11} THEN 30 ELSE 31

DateKey(d) == d[1] * 10000 + d[2] * 100 + d[3]

\* d1 >= d2 on non-null dates (Prisma's gte never matches a null column)
DateGte(d1, d2) == d1 # NoDate /\ DateKey(d1) >= DateKey(d2)

RECURSIVE CarryDays(_, _, _)
CarryDays(y, m, d) ==
    IF d <= DaysInMonth(y, m) THEN <<y, m, d>>
    ELSE IF m = 12 THEN CarryDays(y + 1, 1, d - DaysInMonth(y, m))
    ELSE CarryDays(y, m + 1, d - DaysInMonth(y, m))

\* new Date(y, m, d) with m in 1..13 and d >= 1: a month past December
\* carries into the year, a day past the end of the month carries into
\* the following month(s)
MakeDate(y, m, d) ==
    IF m > 12 THEN CarryDays(y + 1, m - 12, d) ELSE CarryDays(y, m, d)

setDate(date, d) == MakeDate(date[1], date[2], d)
setMonth(date, m) == MakeDate(date[1], m, date[3])
setFullYear(date, y) == MakeDate(y, date[2], date[3])

\* the switch shared by the three copies of calculateEndDate
EndDateSwitch(planTypeStr, today) ==
    CASE planTypeStr = "week" -> setDate(today, today[3] + 7)
      [] planTypeStr = "month" -> setMonth(today, today[2] + 1)
      [] planTypeStr = "year" -> setFullYear(today, today[1] + 1)
      [] OTHER -> setMonth(today, today[2] + 1)

\* verify-payment: planType?.toString() || "month"
calculateEndDate(planType, today) ==
    EndDateSwitch(IF planType = "" THEN "month" ELSE planType, today)

\* check-subscription
calculateEndDateStatus(planType, today) == EndDateSwitch(planType, today)

\* razorpay-webhook (both handlers)
calculateEndDateWebhook(planType, today) == EndDateSwitch(planType, today)

-----------------------------------------------------------------------------
(* Profile provisioning: POST /api/create-profile *)

Users == {"u1", "u2"}

\* what currentUser() can return: a user with an email address, a user
\* without one, or nobody
Identities ==
    { [id |-> "u1", email |-> "u1@mail"],
      [id |-> "u2", email |-> "u2@mail"],
      [id |-> "u3", email |-> ""],
      [id |-> "", email |-> ""] }

ProfileReqs == 1 .. MaxProfileReqs

NewProfile(rowId, userId, email) ==
    [ id |-> rowId, userId |-> userId, email |-> email,
      subscriptionActive |-> FALSE, subscriptionTier |-> "null",
      stripeSubscriptionId |-> 0 ]

CpIdle ==
    [ pc |-> "idle", ident |-> [id |-> "", email |-> ""], status |-> 0,
      msg |-> "", writes |-> 0, after |-> FALSE ]

\* prisma.profile.findUnique({ where: { userId } })
ProfileFindById(tbl, userId) == { p \in tbl : p.id = userId }
ProfileFindUnique(tbl, userId) == { p \in tbl : p.userId = userId }

\* the unique index Profile_userId_key: an insert of a second row for the
\* same userId throws
ProfileCreateThrows(tbl, userId) == \E p \in tbl : p.userId = userId

CpSucceeded(r) ==
    /\ cp[r].pc = "done"
    /\ cp[r].msg \in {"Profile created successfully.", "Profile already exists."}

\* await currentUser() and the two checks on the identity
CpStart(r, ident) ==
    /\ cp[r].pc = "idle"
    /\ LET after == \E r2 \in ProfileReqs :
                        /\ r2 # r
                        /\ CpSucceeded(r2)
                        /\ cp[r2].ident.id = ident.id
       IN  cp' = [cp EXCEPT ![r] =
                 IF ident.id = ""
                 THEN [@ EXCEPT !.pc = "done", !.ident = ident, !.status = 404,
                                !.msg = "User not found in Clerk."]
                 ELSE IF ident.email = ""
                 THEN [@ EXCEPT !.pc = "done", !.ident = ident, !.status = 400,
                                !.msg = "User does not have an email address."]
                 ELSE [@ EXCEPT !.pc = "lookup", !.ident = ident,
                                !.after = after]]
    /\ UNCHANGED <<now, profiles, subs, rzp, last, ticks, steps, race, meal>>

\* await prisma.profile.findUnique(...) and the early return
CpLookup(r) ==
    /\ cp[r].pc = "lookup"
    /\ cp' = [cp EXCEPT ![r] =
                 IF ProfileFindUnique(profiles, cp[r].ident.id) # {}
                 THEN [@ EXCEPT !.pc = "done", !.status = 200,
                                !.msg = "Profile already exists."]
                 ELSE [@ EXCEPT !.pc = "create"]]
    /\ UNCHANGED <<now, profiles, subs, rzp, last, ticks, steps, race, meal>>

\* await prisma.profile.create(...); a unique violation is caught and
\* answered with status 500 and the error's message
CpCreate(r) ==
    /\ cp[r].pc = "create"
    /\ IF ProfileCreateThrows(profiles, cp[r].ident.id)
       THEN /\ cp' = [cp EXCEPT ![r] =
                         [@ EXCEPT !.pc = "done", !.status = 500,
                                   !.msg = "Unique constraint failed"]]
            /\ UNCHANGED profiles
       ELSE /\ profiles' = profiles \cup
                    { NewProfile("row" \o ToString(r), cp[r].ident.id,
                                 cp[r].ident.email) }
            /\ cp' = [cp EXCEPT ![r] =
                         [@ EXCEPT !.pc = "done", !.status = 201,
                                   !.msg = "Profile created successfully.",
                                   !.writes = @ + 1]]
    /\ UNCHANGED <<now, subs, rzp, last, ticks, steps, race, meal>>


-----------------------------------------------------------------------------
(* The stores and the payment provider *)

SubIds == 1 .. MaxSubs

\* the pending family with halted taken into it
PendingFamilyAndHalted == {"created", "authenticated", "pending", "halted"}

PendingFamily == {"created", "authenticated", "pending"}

\* the provider's record of a subscription that was never created
NoRzp ==
    [ status |-> "none", userId |-> "", planType |-> "", total_count |-> 0,
      events |-> {} ]

\* razorpay.subscriptions.fetch(id) throws for an unknown identifier and
\* whenever the gateway cannot be reached
FetchThrows(id, gwOk) == ~gwOk \/ id \notin SubIds \/ rzp[id].status = "none"

\* the identifier the provider gives to the next subscription (0: none left)
FreeId == IF \E s \in SubIds : rzp[s].status = "none"
          THEN CHOOSE s \in SubIds :
                   /\ rzp[s].status = "none"
                   /\ \A t \in SubIds : rzp[t].status = "none" => s <= t
          ELSE 0

\* the webhook events the provider emits when a subscription enters a status
EventsOn(status) ==
    CASE status = "authenticated" -> {"subscription.authenticated"}
      [] status = "active" -> {"subscription.activated", "payment.captured"}
      [] status = "pending" -> {"subscription.pending", "payment.failed"}
      [] status = "halted" -> {"subscription.halted"}
      [] status = "cancelled" -> {"subscription.cancelled"}
      [] status = "completed" -> {"subscription.completed"}
      [] OTHER -> {}

\* statuses in which the provider accepts a cancel request
Cancellable == {"created", "authenticated", "active", "pending", "halted"}

\* the plan-to-price mapping of lib/plans
getPriceIdFromType(planType) ==
    IF planType \in {"week", "month", "year"} THEN "plan_" \o planType ELSE ""

HasProfile(tbl, userId) == \E p \in tbl : p.userId = userId

\* prisma.profile.update({ where: { userId }, data: { subscriptionActive,
\* subscriptionTier, stripeSubscriptionId } })
ProfileSet(tbl, userId, active, tier, ref) ==
    { IF p.userId = userId
      THEN [p EXCEPT !.subscriptionActive = active, !.subscriptionTier = tier,
                     !.stripeSubscriptionId = ref]
      ELSE p : p \in tbl }

\* the profile update with the tier left out
ProfileSetNoTier(tbl, userId, active, tier) ==
    { IF p.userId = userId THEN [p EXCEPT !.subscriptionActive = active]
      ELSE p : p \in tbl }

\* prisma.profile.update({ where: { userId }, data: { subscriptionActive,
\* subscriptionTier } })
ProfileSetTier(tbl, userId, active, tier) ==
    { IF p.userId = userId
      THEN [p EXCEPT !.subscriptionActive = active, !.subscriptionTier = tier]
      ELSE p : p \in tbl }

\* prisma.profile.update({ where: { userId }, data: { subscriptionActive } })
ProfileSetActive(tbl, userId, active) ==
    { IF p.userId = userId THEN [p EXCEPT !.subscriptionActive = active]
      ELSE p : p \in tbl }

\* a row inserted as active whatever the provider's status is
NewSubActive(userId, sid, status, planType, startDate, endDate, isRecurring) ==
    [ userId |-> userId, razorpaySubscriptionId |-> sid,
      razorpayPaymentId |-> "null", status |-> "active", planType |-> planType,
      startDate |-> startDate, endDate |-> endDate,
      isRecurring |-> isRecurring ]

NewSub(userId, sid, status, planType, startDate, endDate, isRecurring) ==
    [ userId |-> userId, razorpaySubscriptionId |-> sid,
      razorpayPaymentId |-> "null", status |-> status, planType |-> planType,
      startDate |-> startDate, endDate |-> endDate,
      isRecurring |-> isRecurring ]

\* position of the row with this provider identifier (unique index), 0 if none
RowOf(tbl, sid) ==
    IF \E i \in 1 .. Len(tbl) : tbl[i].razorpaySubscriptionId = sid
    THEN CHOOSE i \in 1 .. Len(tbl) : tbl[i].razorpaySubscriptionId = sid
    ELSE 0

\* findFirst({ where, orderBy: { createdAt: 'desc' } }): the latest matching
\* row, 0 if none
Latest(S) == IF S = {} THEN 0 ELSE CHOOSE i \in S : \A j \in S : j <= i

\* what a handler answers (status code, message, and the fields of the body
\* that vary) and the gateway calls it made; sid is the subscription the
\* request named or the response returned
Reply(op, status, msg, calls) ==
    [ op |-> op, status |-> status, msg |-> msg, calls |-> calls, sid |-> 0,
      isActive |-> FALSE, isPending |-> FALSE, tier |-> "null", echo |-> "",
      changed |-> TRUE ]

Out(s, p, r, l) == [subs |-> s, profiles |-> p, rzp |-> r, last |-> l]

\* the stores and the provider together
Sys(s, p, r) == [subs |-> s, profiles |-> p, rzp |-> r]

\* no generate-mealplan request under way
MealIdle ==
    [ pc |-> "idle", aiContent |-> <<>>, calls |-> 0, status |-> 0,
      error |-> "", mealPlan |-> "none" ]

\* no interleaved requests under way
RaceIdle ==
    [ sys0 |-> Sys(<<>>, {}, <<>>), reqs |-> <<>>, begun |-> <<>>, todo |-> <<>> ]

\* a request handled from start to end. last.changed records whether it
\* changed a store or the provider. A request that changed nothing leaves the
\* system in the state its predecessor left, so the model explores what
\* follows from the predecessor only; steps counts the requests that changed
\* something.
Apply(o) ==
    LET changed == o.subs # subs \/ o.profiles # profiles \/ o.rzp # rzp
    IN  /\ last.changed
        /\ steps < MaxSteps
        /\ steps' = IF changed THEN steps + 1 ELSE steps
        /\ subs' = o.subs
        /\ profiles' = o.profiles
        /\ rzp' = o.rzp
        /\ last' = [o.last EXCEPT !.changed = changed]
        /\ UNCHANGED <<now, ticks, cp, race, meal>>

-----------------------------------------------------------------------------
(* createSubscription: POST /api/checkout *)

ActiveNowOtherUser(tbl, userId, today) ==
    { i \in 1 .. Len(tbl) :
        /\ tbl[i].userId # userId
        /\ tbl[i].status = "active"
        /\ DateGte(tbl[i].endDate, today) }

\* findFirst({ where: { userId, status: "active", endDate: { gte: now } } })
ActiveNow(tbl, userId, today) ==
    { i \in 1 .. Len(tbl) :
        /\ tbl[i].userId = userId
        /\ tbl[i].status = "active"
        /\ DateGte(tbl[i].endDate, today) }

CreateSubscriptionOut(planType, userId, email, gwOk) ==
    LET R(status, msg, calls) == Reply("create", status, msg, calls)
        id == FreeId
    IN
    IF planType = "" \/ userId = "" \/ email = ""
    THEN Out(subs, profiles, rzp,
             R(400, "Plan Type, userId and email are required", <<>>))
    ELSE IF planType \notin {"week", "month", "year"}
    THEN Out(subs, profiles, rzp, R(400, "Invalid plan type", <<>>))
    ELSE IF getPriceIdFromType(planType) = ""
    THEN Out(subs, profiles, rzp, R(400, "Invalid price id", <<>>))
    ELSE IF ActiveNow(subs, userId, now) # {}
    THEN Out(subs, profiles, rzp,
             R(400, "You already have an active subscription", <<>>))
    ELSE IF ~gwOk \/ id = 0
    THEN Out(subs, profiles, rzp,
             R(500, "Failed to create subscription session", <<"create">>))
    ELSE LET rzp2 == [rzp EXCEPT ![id] =
                         [status |-> "created", userId |-> userId,
                          planType |-> planType, total_count |-> 1,
                          events |-> {}]]
         IN  IF ~HasProfile(profiles, userId)
             THEN \* foreign key Subscription_userId_fkey
                  Out(subs, profiles, rzp2,
                      R(500, "Failed to create subscription session",
                        <<"create">>))
             ELSE Out(Append(subs, NewSub(userId, id, rzp2[id].status, planType,
                                          NoDate, NoDate, FALSE)),
                      profiles, rzp2,
                      [R(200, "created", <<"create">>) EXCEPT !.sid = id])

CreateSubscription(planType, userId, email, gwOk) ==
    Apply(CreateSubscriptionOut(planType, userId, email, gwOk))


-----------------------------------------------------------------------------
(* Redirect verification: POST /api/verify-payment with a sessionId *)

\* the upsert of the activation branch: update sets status and both dates,
\* create inserts a whole row
UpsertActive(tbl, sid, userId, planType, startDate, endDate) ==
    LET i == RowOf(tbl, sid)
    IN  IF i # 0
        THEN [tbl EXCEPT ![i] = [@ EXCEPT !.status = "active",
                                          !.startDate = startDate,
                                          !.endDate = endDate]]
        ELSE Append(tbl, NewSub(userId, sid, "active", planType, startDate,
                                endDate, FALSE))

\* every status that is neither pending nor cancelled taken as paid
PaidStatusAny(status) == status \notin {"created", "authenticated", "cancelled"}

\* subscription.status === 'active' || subscription.status === 'completed'
PaidStatus(status) == status \in {"active", "completed"}

\* the check on the local row left out
LocalCancelledNever(tbl, sid) == FALSE

\* dbsubscritpion?.status === "cancelled"
LocalCancelled(tbl, sid) ==
    RowOf(tbl, sid) # 0 /\ tbl[RowOf(tbl, sid)].status = "cancelled"

VerifyPaymentOut(sessionId, gwOk) ==
    LET R(status, msg, calls) ==
            [Reply("verify", status, msg, calls) EXCEPT !.sid = sessionId]
    IN
    IF sessionId = 0
    THEN \* neither sessionId nor subscriptionId: the signature flow, and the
         \* request carries no signature
         Out(subs, profiles, rzp, R(400, "Invalid signature", <<>>))
    ELSE IF FetchThrows(sessionId, gwOk)
    THEN Out(subs, profiles, rzp, R(500, "Failed to verify payment", <<"fetch">>))
    ELSE
    LET subscription == rzp[sessionId]
        i == RowOf(subs, sessionId)
        userId == subscription.userId
        planType == IF subscription.planType = "" THEN "month"
                    ELSE subscription.planType
        Q(status, msg) == R(status, msg, <<"fetch">>)
    IN
    IF userId = ""
    THEN Out(subs, profiles, rzp, Q(400, "User ID not found in subscription"))
    ELSE IF subscription.status \in {"created", "authenticated"}
    THEN Out(subs, profiles, rzp, Q(200, "Subscription payment is pending"))
    ELSE IF subscription.status = "cancelled"
    THEN Out(subs, profiles, rzp, Q(200, "Payment was not completed"))
    ELSE IF /\ PaidStatus(subscription.status)
            /\ ~LocalCancelled(subs, sessionId)
    THEN IF ~HasProfile(profiles, userId)
         THEN \* the create of the upsert breaks the foreign key, or the
              \* profile update finds no row: the catch answers 500
              Out(subs, profiles, rzp, Q(500, "Failed to verify payment"))
         ELSE Out(UpsertActive(subs, sessionId, userId, planType, now,
                               calculateEndDate(planType, now)),
                  ProfileSet(profiles, userId, TRUE, planType, sessionId),
                  rzp, Q(200, "Subscription verified and activated"))
    ELSE Out(subs, profiles, rzp,
             [Q(200, "Subscription status") EXCEPT !.echo = subscription.status])

VerifyPayment(sessionId, gwOk) == Apply(VerifyPaymentOut(sessionId, gwOk))

-----------------------------------------------------------------------------
(* getStatus: GET /api/check-subscription *)

ActiveOrCompletedNow(tbl, userId, today) ==
    { i \in 1 .. Len(tbl) :
        /\ tbl[i].userId = userId
        /\ tbl[i].status \in {"active", "completed"}
        /\ DateGte(tbl[i].endDate, today) }

\* the pending-family query with the userId filter left out
PendingRowsAnyUser(tbl, userId) ==
    { i \in 1 .. Len(tbl) : tbl[i].status \in PendingFamily }

PendingRows(tbl, userId) ==
    { i \in 1 .. Len(tbl) :
        /\ tbl[i].userId = userId
        /\ tbl[i].status \in PendingFamily }

GetStatusOut(userId, gwOk) ==
    LET R(status, msg, calls) == Reply("status", status, msg, calls)
        a == Latest(ActiveOrCompletedNow(subs, userId, now))
        p == Latest(PendingRows(subs, userId))
        Inactive(calls) == R(200, "inactive", calls)
    IN
    IF userId = ""
    THEN Out(subs, profiles, rzp, R(400, "User ID is required", <<>>))
    ELSE IF a # 0
    THEN Out(subs, profiles, rzp,
             [R(200, "active", <<>>) EXCEPT
                 !.isActive = TRUE, !.tier = subs[a].planType,
                 !.sid = subs[a].razorpaySubscriptionId])
    ELSE IF p = 0
    THEN Out(subs, profiles, rzp, Inactive(<<>>))
    ELSE IF FetchThrows(subs[p].razorpaySubscriptionId, gwOk)
    THEN \* caught and logged; falls through
         Out(subs, profiles, rzp, Inactive(<<"fetch">>))
    ELSE
    LET sid == subs[p].razorpaySubscriptionId
        st == rzp[sid].status
    IN
    IF st \in {"active", "completed"}
    THEN Out([subs EXCEPT ![p] =
                 [@ EXCEPT !.status = "active", !.startDate = now,
                           !.endDate = calculateEndDateStatus(subs[p].planType, now)]],
             ProfileSetTier(profiles, userId, TRUE, subs[p].planType),
             rzp,
             [R(200, "active", <<"fetch">>) EXCEPT
                 !.isActive = TRUE, !.tier = subs[p].planType, !.sid = sid])
    ELSE IF st \in PendingFamily
    THEN Out(subs, profiles, rzp,
             [R(200, "pending", <<"fetch">>) EXCEPT
                 !.isPending = TRUE, !.sid = sid])
    ELSE Out([subs EXCEPT ![p] = [@ EXCEPT !.status = st]], profiles, rzp,
             Inactive(<<"fetch">>))

GetStatus(userId, gwOk) == Apply(GetStatusOut(userId, gwOk))


-----------------------------------------------------------------------------
(* cancelSubscription: POST /api/cancel-subscription *)

\* findFirst({ where: { razorpaySubscriptionId, userId } })
OwnedRowAnyUser(tbl, sid, userId) == RowOf(tbl, sid)

OwnedRow(tbl, sid, userId) ==
    LET i == RowOf(tbl, sid)
    IN  IF i # 0 /\ tbl[i].userId = userId THEN i ELSE 0

SetStatus(tbl, i, status) == [tbl EXCEPT ![i] = [@ EXCEPT !.status = status]]

\* what razorpay.subscriptions.cancel(id) can do: succeed, or throw an error
\* with one of these messages
CancelErrors == {"completed", "already been processed", "other"}

CancelOutcomes(sid, gwOk) ==
    IF ~gwOk \/ sid \notin SubIds \/ rzp[sid].status = "none" THEN {"other"}
    ELSE IF rzp[sid].status \in Cancellable THEN {"ok"}
    ELSE IF rzp[sid].status = "completed" THEN {"completed"}
    ELSE {"already been processed", "other"}

\* lines 80-108 with the profile update dropped
CancelledKeepProfile(tbl, userId) == tbl

\* lines 96-103: the profile update of a successful cancellation
CancelledProfile(tbl, userId) == ProfileSet(tbl, userId, FALSE, "null", 0)

CancelSubscriptionOut(subscriptionId, userId, fetchOk, cancelOk, outcome) ==
    LET R(status, msg, calls) ==
            [Reply("cancel", status, msg, calls) EXCEPT !.sid = subscriptionId]
        i == OwnedRow(subs, subscriptionId, userId)
        fetched == ~FetchThrows(subscriptionId, fetchOk)
    IN
    IF subscriptionId = 0 \/ userId = ""
    THEN Out(subs, profiles, rzp,
             R(400, "Subscription ID and user ID are required", <<>>))
    ELSE IF i = 0
    THEN Out(subs, profiles, rzp,
             R(404, "Subscription not found or does not belong to this user",
               <<>>))
    ELSE IF fetched /\ rzp[subscriptionId].status = "completed"
    THEN \* lines 50-74
         Out(SetStatus(subs, i, "cancelled"),
             ProfileSet(profiles, userId, FALSE, "null", 0), rzp,
             R(200, "Subscription is completed. Your access will remain until the end date.",
               <<"fetch">>))
    ELSE IF outcome = "ok"
    THEN Out(SetStatus(subs, i, "cancelled"),
             CancelledProfile(profiles, userId),
             [rzp EXCEPT ![subscriptionId] =
                 [@ EXCEPT !.status = "cancelled",
                           !.events = @ \cup EventsOn("cancelled")]],
             R(200, "Subscription cancelled successfully", <<"fetch", "cancel">>))
    ELSE IF outcome \in {"completed", "already been processed"}
    THEN \* lines 113-128
         Out(SetStatus(subs, i, "cancelled"), profiles, rzp,
             R(200, "Subscription is completed. Your access will remain until the end date.",
               <<"fetch", "cancel">>))
    ELSE Out(subs, profiles, rzp,
             R(500, "Failed to cancel subscription", <<"fetch", "cancel">>))

CancelSubscription(subscriptionId, userId, fetchOk, cancelOk, outcome) ==
    /\ outcome \in CancelOutcomes(subscriptionId, cancelOk)
    /\ Apply(CancelSubscriptionOut(subscriptionId, userId, fetchOk, cancelOk,
                                   outcome))

-----------------------------------------------------------------------------
(* resumePayment: POST /api/resume-payment *)

ResumePaymentOut(subscriptionId, userId, gwOk, createOk) ==
    LET R(status, msg, calls) ==
            [Reply("resume", status, msg, calls) EXCEPT !.sid = subscriptionId]
        i == OwnedRow(subs, subscriptionId, userId)
        id == FreeId
    IN
    IF subscriptionId = 0 \/ userId = ""
    THEN Out(subs, profiles, rzp,
             R(400, "Subscription ID and user ID are required", <<>>))
    ELSE IF i = 0
    THEN Out(subs, profiles, rzp,
             R(404, "Subscription not found in our records", <<>>))
    ELSE IF FetchThrows(subscriptionId, gwOk)
    THEN Out(subs, profiles, rzp, R(500, "Failed to resume payment", <<"fetch">>))
    ELSE
    LET subscription == rzp[subscriptionId]
    IN
    IF subscription.userId # userId
    THEN Out(subs, profiles, rzp,
             R(403, "Subscription does not belong to this user", <<"fetch">>))
    ELSE IF subscription.status = "active"
    THEN Out(SetStatus(subs, i, "active"),
             ProfileSetTier(profiles, userId, TRUE, subs[i].planType), rzp,
             R(200, "Subscription is already active", <<"fetch">>))
    ELSE IF subscription.status \in {"cancelled", "expired"}
    THEN IF ~createOk \/ id = 0
         THEN Out(subs, profiles, rzp,
                  R(500, "Failed to resume payment", <<"fetch", "create">>))
         ELSE LET planType == IF subscription.planType = "" THEN "month"
                              ELSE subscription.planType
                  rzp2 == [rzp EXCEPT ![id] =
                              [status |-> "created", userId |-> userId,
                               planType |-> planType,
                               total_count |-> subscription.total_count,
                               events |-> {}]]
              IN  Out(Append(subs,
                             NewSub(userId, id, rzp2[id].status, planType,
                                    NoDate, NoDate,
                                    rzp2[id].total_count > 1
                                        \/ rzp2[id].total_count = 0)),
                      profiles, rzp2,
                      [R(200, "New subscription created successfully",
                         <<"fetch", "create">>) EXCEPT !.echo = "new"])
    ELSE IF subscription.status \in PendingFamily
    THEN Out(subs, profiles, rzp,
             R(200, "Payment URL generated successfully", <<"fetch">>))
    ELSE Out(subs, profiles, rzp,
             [R(400, "Cannot resume payment at this time", <<"fetch">>)
                 EXCEPT !.echo = subscription.status])

ResumePayment(subscriptionId, userId, gwOk, createOk) ==
    Apply(ResumePaymentOut(subscriptionId, userId, gwOk, createOk))


-----------------------------------------------------------------------------
(* Webhook receiver: POST /api/razorpay-webhook (two handlers) *)

WebhookSecret == "whsec"

\* HMAC-SHA256 as a keyed function: equal digests only for equal key and body
Hmac(secret, body) == <<secret, body>>

Events ==
    { "subscription.authenticated", "subscription.activated",
      "subscription.pending", "subscription.halted", "subscription.cancelled",
      "subscription.completed", "payment.captured", "payment.failed" }

\* the event the provider sends about subscription s: payload.entity carries
\* the identifier, the notes and the plan; a payment entity carries its own
\* identifier and subscription_id (s = 0: a payment outside any subscription)
Body(event, s) ==
    IF s = 0
    THEN [ event |-> event, sid |-> 0, userId |-> "", planType |-> "",
           planId |-> "", paymentId |-> "pay_1" ]
    ELSE [ event |-> event, sid |-> s, userId |-> rzp[s].userId,
           planType |-> rzp[s].planType,
           planId |-> getPriceIdFromType(rzp[s].planType),
           paymentId |-> "pay_1" ]

Db(s, p) == [subs |-> s, profiles |-> p]

\* prisma.subscription.upsert of handleSubscriptionActivated followed by the
\* profile update; an exception ends the handler where it is thrown
ActivatedWrites(db, payload, today) ==
    LET i == RowOf(db.subs, payload.sid)
    IN  IF i = 0 /\ (payload.planType = "" \/ ~HasProfile(db.profiles, payload.userId))
        THEN db
        ELSE LET subs2 == UpsertActive(db.subs, payload.sid, payload.userId,
                              payload.planType, today,
                              calculateEndDateWebhook(payload.planType, today))
             IN  Db(subs2,
                    \* an undefined subscriptionTier leaves the column alone
                    IF payload.planType = ""
                    THEN { IF p.userId = payload.userId
                           THEN [p EXCEPT !.subscriptionActive = TRUE,
                                          !.stripeSubscriptionId = payload.sid]
                           ELSE p : p \in db.profiles }
                    ELSE ProfileSet(db.profiles, payload.userId, TRUE,
                                    payload.planType, payload.sid))

\* first handler: returns early unless userId, planType and plan_id are set
handleSubscriptionActivated(db, payload, today) ==
    IF payload.userId = "" \/ payload.planType = "" \/ payload.planId = ""
    THEN db
    ELSE ActivatedWrites(db, payload, today)

\* second handler: returns early only without userId
handleSubscriptionActivated2(db, payload, today) ==
    IF payload.userId = "" THEN db ELSE ActivatedWrites(db, payload, today)

PendingWrites(db, payload) ==
    LET i == RowOf(db.subs, payload.sid)
    IN  IF i # 0 THEN Db(SetStatus(db.subs, i, "pending"), db.profiles)
        ELSE IF payload.planType = "" \/ ~HasProfile(db.profiles, payload.userId)
        THEN db
        ELSE Db(Append(db.subs, NewSub(payload.userId, payload.sid, "pending",
                                       payload.planType, NoDate, NoDate, FALSE)),
                db.profiles)

handleSubscriptionPending(db, payload) ==
    IF payload.userId = "" \/ payload.planType = "" \/ payload.planId = ""
    THEN db
    ELSE PendingWrites(db, payload)

handleSubscriptionPending2(db, payload) ==
    IF payload.userId = "" THEN db ELSE PendingWrites(db, payload)

handleSubscriptionHalted(db, payload) ==
    LET i == RowOf(db.subs, payload.sid)
    IN  IF i = 0 THEN db
        ELSE Db(SetStatus(db.subs, i, "halted"),
                ProfileSetActive(db.profiles, db.subs[i].userId, FALSE))

handleSubscriptionCancelled(db, payload) ==
    LET i == RowOf(db.subs, payload.sid)
    IN  IF i = 0 THEN db
        ELSE Db(SetStatus(db.subs, i, "cancelled"),
                ProfileSetActive(db.profiles, db.subs[i].userId, FALSE))

\* the handler stamping the dates as an activation does
handlePaymentCapturedStamping(db, payload) ==
    LET i == RowOf(db.subs, payload.sid)
    IN  IF payload.sid = 0 \/ i = 0 THEN db
        ELSE Db([db.subs EXCEPT ![i] =
                    [@ EXCEPT !.razorpayPaymentId = payload.paymentId,
                              !.status = "active", !.startDate = now]],
                db.profiles)

handlePaymentCaptured(db, payload) ==
    LET i == RowOf(db.subs, payload.sid)
    IN  IF payload.sid = 0 \/ i = 0 THEN db
        ELSE Db([db.subs EXCEPT ![i] =
                    [@ EXCEPT !.razorpayPaymentId = payload.paymentId,
                              !.status = "active"]],
                db.profiles)

\* the handler without its Profile update
handlePaymentFailedRowOnly(db, payload) ==
    LET i == RowOf(db.subs, payload.sid)
    IN  IF payload.sid = 0 \/ i = 0 THEN db
        ELSE Db(SetStatus(db.subs, i, "halted"), db.profiles)

handlePaymentFailed(db, payload) ==
    LET i == RowOf(db.subs, payload.sid)
    IN  IF payload.sid = 0 \/ i = 0 THEN db
        ELSE Db(SetStatus(db.subs, i, "halted"),
                ProfileSetActive(db.profiles, db.subs[i].userId, FALSE))

\* the switch on the event name
Dispatch(h, db, body, today) ==
    CASE body.event = "subscription.activated" ->
            IF h = 1 THEN handleSubscriptionActivated(db, body, today)
            ELSE handleSubscriptionActivated2(db, body, today)
      [] body.event = "subscription.pending" ->
            IF h = 1 THEN handleSubscriptionPending(db, body)
            ELSE handleSubscriptionPending2(db, body)
      [] body.event = "subscription.halted" -> handleSubscriptionHalted(db, body)
      [] body.event = "subscription.cancelled" -> handleSubscriptionCancelled(db, body)
      [] body.event = "payment.captured" -> handlePaymentCaptured(db, body)
      [] body.event = "payment.failed" -> handlePaymentFailed(db, body)
      [] OTHER -> db

SignatureAny(body, signature) == TRUE

\* expectedSignature !== signature is answered 401
SignatureOk(body, signature) == Hmac(WebhookSecret, body) = signature

WebhookOut(h, body, signature) ==
    LET R(status, msg) ==
            [Reply("webhook", status, msg, <<>>) EXCEPT !.sid = body.sid,
                                                        !.echo = body.event]
    IN  IF ~SignatureOk(body, signature)
        THEN Out(subs, profiles, rzp, R(401, "Invalid signature"))
        ELSE LET db == Dispatch(h, Db(subs, profiles), body, now)
             IN  Out(db.subs, db.profiles, rzp, R(200, "received"))

\* a delivery by the provider, correctly signed: an event it has emitted
\* about a subscription, in any order and any number of times, or the event
\* of a payment outside any subscription
WebhookDelivery(h, event, s) ==
    /\ IF s = 0 THEN event \in {"payment.captured", "payment.failed"}
       ELSE event \in rzp[s].events
    /\ LET body == Body(event, s)
       IN  Apply(WebhookOut(h, body, Hmac(WebhookSecret, body)))

\* a request by anybody else: the signature is missing or made with another key
WebhookForged(h, event, s, key) ==
    /\ rzp[s].status # "none"
    /\ key # WebhookSecret
    /\ LET body == Body(event, s)
       IN  Apply(WebhookOut(h, body, IF key = "" THEN <<>> ELSE Hmac(key, body)))


-----------------------------------------------------------------------------
(* The environment: the provider's own lifecycle and the passing of time *)

\* the provider moves a subscription along its lifecycle (the customer pays,
\* a charge fails, the billing cycle ends, ...)
ProviderNext(status) ==
    CASE status = "created" -> {"authenticated", "active", "cancelled", "expired"}
      [] status = "authenticated" -> {"active", "cancelled"}
      [] status = "active" -> {"pending", "halted", "completed", "cancelled"}
      [] status = "pending" -> {"active", "halted", "cancelled"}
      [] status = "halted" -> {"active", "cancelled"}
      [] OTHER -> {}

ProviderStep(s, status) ==
    /\ last.changed
    /\ steps < MaxSteps
    /\ steps' = steps + 1
    /\ status \in ProviderNext(rzp[s].status)
    /\ rzp' = [rzp EXCEPT ![s] = [@ EXCEPT !.status = status,
                                           !.events = @ \cup EventsOn(status)]]
    /\ last' = Reply("provider", 0, "", <<>>)
    /\ UNCHANGED <<now, profiles, subs, ticks, cp, race, meal>>

NextDay(d) == MakeDate(d[1], d[2], d[3] + 1)

\* the dates the clock may advance to: the next day, or the day after a
\* stored end date that has not passed yet
TickTargets ==
    {NextDay(now)} \cup
    { NextDay(subs[i].endDate) :
        i \in { j \in 1 .. Len(subs) : DateGte(subs[j].endDate, now) } }

Tick(d) ==
    /\ last.changed
    /\ ticks < MaxTicks
    /\ steps < MaxSteps
    /\ d \in TickTargets
    /\ now' = d
    /\ ticks' = ticks + 1
    /\ steps' = steps + 1
    /\ UNCHANGED <<profiles, subs, rzp, last, cp, race, meal>>

-----------------------------------------------------------------------------
(* The subscription lifecycle *)

StartDates == { <<2024, 1, 31>> }

\* request inputs: plan types (two valid, one unknown, one missing), the
\* users who subscribe, and the users who call the other endpoints
PlanInputs == {"week", "month", "daily", ""}
Subscribers == {"u1", ""}
UserInputs == {"u1", "u2", ""}
SidInputs == 0 .. MaxSubs
ForgedEvents == {"subscription.activated", "subscription.cancelled", "payment.failed"}

ProvisionedProfiles ==
    { NewProfile("row1", "u1", "u1@mail"), NewProfile("row2", "u2", "u2@mail") }

\* the state after u1 has created subscription 1 and paid for it at the
\* provider's checkout: the provider has activated it and emitted its events,
\* the local row is still as createSubscription left it
PaidRzp(planType) ==
    [ status |-> "active", userId |-> "u1", planType |-> planType,
      total_count |-> 1, events |-> EventsOn("active") ]

\* the system starts with the two profiles provisioned and either no
\* subscription at all or the one just paid for
Init ==
    /\ now \in StartDates
    /\ profiles = ProvisionedProfiles
    /\ \/ /\ subs = <<>>
          /\ rzp = [s \in SubIds |-> NoRzp]
       \/ \E planType \in {"week", "month"} :
             /\ subs = <<NewSub("u1", 1, "created", planType, NoDate, NoDate, FALSE)>>
             /\ rzp = [s \in SubIds |-> IF s = 1 THEN PaidRzp(planType) ELSE NoRzp]
    /\ last = Reply("init", 0, "", <<>>)
    /\ ticks = 0
    /\ steps = 0
    /\ cp = [r \in ProfileReqs |-> CpIdle]
    /\ race = RaceIdle
    /\ meal = MealIdle

Next ==
    \/ \E planType \in PlanInputs, userId \in Subscribers, email \in {"", "e@mail"},
          gwOk \in BOOLEAN : CreateSubscription(planType, userId, email, gwOk)
    \/ \E sessionId \in SidInputs, gwOk \in BOOLEAN : VerifyPayment(sessionId, gwOk)
    \/ \E userId \in UserInputs, gwOk \in BOOLEAN : GetStatus(userId, gwOk)
    \/ \E subscriptionId \in SidInputs, userId \in UserInputs,
          fetchOk \in BOOLEAN, cancelOk \in BOOLEAN,
          outcome \in CancelErrors \cup {"ok"} :
          CancelSubscription(subscriptionId, userId, fetchOk, cancelOk, outcome)
    \/ \E subscriptionId \in SidInputs, userId \in UserInputs,
          gwOk \in BOOLEAN, createOk \in BOOLEAN :
          ResumePayment(subscriptionId, userId, gwOk, createOk)
    \/ \E h \in {1, 2}, event \in Events, s \in SidInputs :
          WebhookDelivery(h, event, s)
    \/ \E h \in {1, 2}, event \in ForgedEvents, s \in SubIds, key \in {"", "guess"} :
          WebhookForged(h, event, s, key)
    \/ \E s \in SubIds, status \in {"authenticated", "active", "pending", "halted",
                                   "completed", "cancelled", "expired"} :
          ProviderStep(s, status)
    \/ \E d \in TickTargets : Tick(d)

Spec == Init /\ [][Next]_vars


-----------------------------------------------------------------------------
(* Profile provisioning on its own: requests whose steps interleave *)

InitProfile ==
    /\ now \in StartDates
    /\ profiles = {}
    /\ subs = <<>>
    /\ rzp = [s \in SubIds |-> NoRzp]
    /\ last = Reply("init", 0, "", <<>>)
    /\ ticks = 0
    /\ steps = 0
    /\ cp = [r \in ProfileReqs |-> CpIdle]
    /\ race = RaceIdle
    /\ meal = MealIdle

NextProfile ==
    \/ \E r \in ProfileReqs, ident \in Identities : CpStart(r, ident)
    \/ \E r \in ProfileReqs : CpLookup(r)
    \/ \E r \in ProfileReqs : CpCreate(r)

SpecProfile == InitProfile /\ [][NextProfile]_vars

-----------------------------------------------------------------------------
(* The activation paths over the calendar: any day of a common and of a leap
   year, a paid subscription with any plan type in its notes *)

Years == {2023, 2024}

DateInputs ==
    { d \in Years \X (1 .. 12) \X (1 .. 31) : d[3] <= DaysInMonth(d[1], d[2]) }

\* the plan types a provider-side subscription can carry in its notes
NotePlans == {"week", "month", "year", "daily", ""}

InitDate ==
    /\ now \in DateInputs
    /\ profiles = ProvisionedProfiles
    /\ \E planType \in NotePlans :
          /\ rzp = [s \in SubIds |-> IF s = 1 THEN PaidRzp(planType) ELSE NoRzp]
          /\ \/ subs = <<>>
             \/ /\ planType # ""
                /\ \E status \in {"created", "pending"} :
                      subs = <<NewSub("u1", 1, status, planType, NoDate, NoDate, FALSE)>>
    /\ last = Reply("init", 0, "", <<>>)
    /\ ticks = 0
    /\ steps = 0
    /\ cp = [r \in ProfileReqs |-> CpIdle]
    /\ race = RaceIdle
    /\ meal = MealIdle

NextDate ==
    \/ \E sessionId \in SidInputs, gwOk \in BOOLEAN : VerifyPayment(sessionId, gwOk)
    \/ \E userId \in UserInputs, gwOk \in BOOLEAN : GetStatus(userId, gwOk)
    \/ \E h \in {1, 2}, s \in SubIds : WebhookDelivery(h, "subscription.activated", s)

SpecDate == InitDate /\ [][NextDate]_vars


-----------------------------------------------------------------------------
(* A handler that stops between its two writes: redirect verification has
   upserted the Subscription row (lines 91-110) and the process ends before
   the Profile update (lines 113-120); no response is sent *)

VerifyPaymentStopped(sessionId) ==
    LET o == VerifyPaymentOut(sessionId, TRUE)
    IN  /\ o.last.msg = "Subscription verified and activated"
        /\ Apply(Out(o.subs, profiles, rzp,
                     [Reply("verify-stopped", 0, "", <<"fetch">>)
                         EXCEPT !.sid = sessionId]))

NextStopped ==
    \/ \E planType \in PlanInputs, userId \in Subscribers, email \in {"", "e@mail"},
          gwOk \in BOOLEAN : CreateSubscription(planType, userId, email, gwOk)
    \/ \E sessionId \in SidInputs : VerifyPaymentStopped(sessionId)
    \/ \E sessionId \in SidInputs, gwOk \in BOOLEAN : VerifyPayment(sessionId, gwOk)
    \/ \E userId \in UserInputs, gwOk \in BOOLEAN : GetStatus(userId, gwOk)
    \/ \E s \in SubIds, status \in {"authenticated", "active", "pending", "halted",
                                   "completed", "cancelled", "expired"} :
          ProviderStep(s, status)
    \/ \E d \in TickTargets : Tick(d)

SpecStopped == Init /\ [][NextStopped]_vars

-----------------------------------------------------------------------------
(* Two requests for one user whose persistence steps interleave. A handler
   first reads (its queries and its gateway calls) and decides, then awaits
   its writes one after the other: the Subscription write, then the Profile
   write. Nothing wraps the two writes in a transaction. *)

\* prisma.subscription.update / upsert, as decided by the reads
SubWrite(sid, userId, status, stamp, planType) ==
    [ t |-> "sub", sid |-> sid, userId |-> userId, status |-> status,
      stamp |-> stamp, planType |-> planType, active |-> FALSE,
      tier |-> "keep", ref |-> -1 ]

\* prisma.profile.update; tier "keep" and ref -1: the field is not in data
ProfileWrite(userId, active, tier, ref) ==
    [ t |-> "profile", sid |-> 0, userId |-> userId, status |-> "",
      stamp |-> "", planType |-> "", active |-> active, tier |-> tier,
      ref |-> ref ]

\* one awaited write carried out
ApplyWrite(w, sys) ==
    IF w.t = "sub"
    THEN LET i == RowOf(sys.subs, w.sid)
         IN  IF w.stamp # ""
             THEN [sys EXCEPT !.subs =
                      UpsertActive(sys.subs, w.sid, w.userId, w.planType, now,
                                   IF w.stamp = "verify"
                                   THEN calculateEndDate(w.planType, now)
                                   ELSE IF w.stamp = "status"
                                   THEN calculateEndDateStatus(w.planType, now)
                                   ELSE calculateEndDateWebhook(w.planType, now))]
             ELSE IF i = 0 THEN sys
             ELSE [sys EXCEPT !.subs = SetStatus(sys.subs, i, w.status)]
    ELSE [sys EXCEPT !.profiles =
             { IF q.userId = w.userId
               THEN [q EXCEPT !.subscriptionActive = w.active,
                              !.subscriptionTier =
                                  IF w.tier = "keep" THEN @ ELSE w.tier,
                              !.stripeSubscriptionId =
                                  IF w.ref = -1 THEN @ ELSE w.ref]
               ELSE q : q \in sys.profiles }]

\* the requests: a status query, a redirect verification, a cancellation, and
\* the delivery of an activated or cancelled event
RaceReqs ==
    { [kind |-> "status", userId |-> "u1", sid |-> 0],
      [kind |-> "verify", userId |-> "", sid |-> 1],
      [kind |-> "cancel", userId |-> "u1", sid |-> 1],
      [kind |-> "subscription.activated", userId |-> "", sid |-> 1],
      [kind |-> "subscription.cancelled", userId |-> "", sid |-> 1] }

\* the writes a request decides on from what it reads in sys
Plan(req, sys) ==
    LET i == RowOf(sys.subs, req.sid)
    IN
    CASE req.kind = "status" ->
            LET a == Latest(ActiveOrCompletedNow(sys.subs, req.userId, now))
                p == Latest(PendingRows(sys.subs, req.userId))
            IN  IF a # 0 \/ p = 0 THEN <<>>
                ELSE LET row == sys.subs[p]
                         st == sys.rzp[row.razorpaySubscriptionId].status
                     IN  IF st \in {"active", "completed"}
                         THEN << SubWrite(row.razorpaySubscriptionId, req.userId,
                                          "active", "status", row.planType),
                                 ProfileWrite(req.userId, TRUE, row.planType, -1) >>
                         ELSE IF st \in PendingFamily THEN <<>>
                         ELSE << SubWrite(row.razorpaySubscriptionId, req.userId,
                                          st, "", row.planType) >>
      [] req.kind = "verify" ->
            LET subscription == sys.rzp[req.sid]
            IN  IF /\ subscription.status \in {"active", "completed"}
                   /\ ~(i # 0 /\ sys.subs[i].status = "cancelled")
                THEN << SubWrite(req.sid, subscription.userId, "active", "verify",
                                 subscription.planType),
                        ProfileWrite(subscription.userId, TRUE,
                                     subscription.planType, req.sid) >>
                ELSE <<>>
      [] req.kind = "cancel" ->
            IF OwnedRow(sys.subs, req.sid, req.userId) = 0 THEN <<>>
            ELSE IF sys.rzp[req.sid].status \in Cancellable \cup {"completed"}
            THEN << SubWrite(req.sid, req.userId, "cancelled", "", ""),
                    ProfileWrite(req.userId, FALSE, "null", 0) >>
            ELSE <<>>
      [] req.kind = "subscription.activated" ->
            << SubWrite(req.sid, sys.rzp[req.sid].userId, "active", "webhook",
                        sys.rzp[req.sid].planType),
               ProfileWrite(sys.rzp[req.sid].userId, TRUE,
                            sys.rzp[req.sid].planType, req.sid) >>
      [] req.kind = "subscription.cancelled" ->
            IF i = 0 THEN <<>>
            ELSE << SubWrite(req.sid, sys.subs[i].userId, "cancelled", "", ""),
                    ProfileWrite(sys.subs[i].userId, FALSE, "keep", -1) >>

\* the gateway call that changes the provider: razorpay.subscriptions.cancel
ProviderAfter(req, sys) ==
    IF /\ req.kind = "cancel"
       /\ OwnedRow(sys.subs, req.sid, req.userId) # 0
       /\ sys.rzp[req.sid].status \in Cancellable
    THEN [sys EXCEPT !.rzp[req.sid] =
             [@ EXCEPT !.status = "cancelled",
                       !.events = @ \cup EventsOn("cancelled")]]
    ELSE sys

RECURSIVE ApplyWrites(_, _)
ApplyWrites(ws, sys) ==
    IF ws = <<>> THEN sys ELSE ApplyWrites(Tail(ws), ApplyWrite(Head(ws), sys))

\* a request handled from start to end with nothing in between
RunAlone(req, sys) == ApplyWrites(Plan(req, sys), ProviderAfter(req, sys))

\* the request reads and decides
RaceBegin(k) ==
    /\ k \in DOMAIN race.reqs
    /\ ~race.begun[k]
    /\ LET sys == Sys(subs, profiles, rzp)
       IN  /\ race' = [race EXCEPT !.begun[k] = TRUE,
                                   !.todo[k] = Plan(race.reqs[k], sys)]
           /\ rzp' = ProviderAfter(race.reqs[k], sys).rzp
    /\ UNCHANGED <<now, profiles, subs, last, ticks, steps, cp, meal>>

\* the request's next write
RaceWrite(k) ==
    /\ k \in DOMAIN race.reqs
    /\ race.begun[k]
    /\ race.todo[k] # <<>>
    /\ LET sys == ApplyWrite(Head(race.todo[k]), Sys(subs, profiles, rzp))
       IN  /\ subs' = sys.subs
           /\ profiles' = sys.profiles
    /\ race' = [race EXCEPT !.todo[k] = Tail(@)]
    /\ UNCHANGED <<now, rzp, last, ticks, steps, cp, meal>>

RaceDone == \A k \in DOMAIN race.reqs : race.begun[k] /\ race.todo[k] = <<>>

\* u1's subscription 1 paid and not yet verified, or verified and since
\* cancelled at the provider; two requests arrive
InitRace ==
    /\ now \in StartDates
    /\ \E planType \in {"week", "month"} :
          \/ /\ subs = <<NewSub("u1", 1, "created", planType, NoDate, NoDate, FALSE)>>
             /\ rzp = [s \in SubIds |-> IF s = 1 THEN PaidRzp(planType) ELSE NoRzp]
             /\ profiles = ProvisionedProfiles
          \/ /\ subs = <<NewSub("u1", 1, "active", planType, now,
                                calculateEndDate(planType, now), FALSE)>>
             /\ rzp = [s \in SubIds |->
                          IF s = 1
                          THEN [PaidRzp(planType) EXCEPT
                                   !.status = "cancelled",
                                   !.events = @ \cup EventsOn("cancelled")]
                          ELSE NoRzp]
             /\ profiles = ProfileSet(ProvisionedProfiles, "u1", TRUE, planType, 1)
    /\ last = Reply("init", 0, "", <<>>)
    /\ ticks = 0
    /\ steps = 0
    /\ cp = [r \in ProfileReqs |-> CpIdle]
    /\ meal = MealIdle
    /\ \E r1 \in RaceReqs, r2 \in RaceReqs :
          /\ \A r \in {r1, r2} :
                r.kind \in {"subscription.activated", "subscription.cancelled"}
                    => r.kind \in rzp[r.sid].events
          /\ race = [ sys0 |-> Sys(subs, profiles, rzp), reqs |-> <<r1, r2>>,
                      begun |-> <<FALSE, FALSE>>, todo |-> <<<<>>, <<>>>> ]

NextRace ==
    \/ \E k \in {1, 2} : RaceBegin(k)
    \/ \E k \in {1, 2} : RaceWrite(k)

SpecRace == InitRace /\ [][NextRace]_vars

-----------------------------------------------------------------------------
(* Subscription creation by any caller: the endpoint takes the userId from
   the request body, and a user's Profile may not be provisioned yet *)

InitCreate ==
    /\ now \in StartDates
    /\ profiles \in SUBSET ProvisionedProfiles
    /\ subs = <<>>
    /\ rzp = [s \in SubIds |-> NoRzp]
    /\ last = Reply("init", 0, "", <<>>)
    /\ ticks = 0
    /\ steps = 0
    /\ cp = [r \in ProfileReqs |-> CpIdle]
    /\ race = RaceIdle
    /\ meal = MealIdle

NextCreate ==
    \/ \E planType \in PlanInputs, userId \in UserInputs, email \in {"", "e@mail"},
          gwOk \in BOOLEAN : CreateSubscription(planType, userId, email, gwOk)
    \/ \E sessionId \in SidInputs, gwOk \in BOOLEAN : VerifyPayment(sessionId, gwOk)
    \/ \E userId \in UserInputs, gwOk \in BOOLEAN : GetStatus(userId, gwOk)
    \/ \E s \in SubIds, status \in {"authenticated", "active", "pending", "halted",
                                   "completed", "cancelled", "expired"} :
          ProviderStep(s, status)

SpecCreate == InitCreate /\ [][NextCreate]_vars

-----------------------------------------------------------------------------
(* Meal-plan generation: POST /api/generate-mealplan. The text the provider
   returns is a sequence of tokens: a code fence with or without a language
   tag, a newline, or a body; a body token stands for a text of the JSON kind
   it names, "malformed" for a text that is not JSON *)

Fences == {"fence-json", "fence-JSON", "fence"}
Newline == "\n"
Bodies == {"object", "array", "string", "number", "true", "null", "malformed"}

\* what the provider can return: nothing, or a body, bare or wrapped in an
\* opening and a closing fence, with or without the newlines
Openings ==
    { <<>>, <<"fence-json", Newline>>, <<"fence", Newline>>, <<"fence-JSON", Newline>>,
      <<"fence-json">>, <<Newline>> }
Closings == { <<>>, <<Newline, "fence">>, <<"fence">>, <<Newline>> }
AiContents ==
    { <<>> } \cup { o \o <<b>> \o c : o \in Openings, b \in Bodies, c \in Closings }

\* String.prototype.trim
RECURSIVE TrimLeft(_)
TrimLeft(t) == IF t # <<>> /\ Head(t) = Newline THEN TrimLeft(Tail(t)) ELSE t
RECURSIVE TrimRight(_)
TrimRight(t) ==
    IF t # <<>> /\ t[Len(t)] = Newline THEN TrimRight(SubSeq(t, 1, Len(t) - 1))
    ELSE t
trim(t) == TrimLeft(TrimRight(t))

\* aiContent.startsWith(fence + 'json') || aiContent.startsWith(fence)
startsWithFence(t) == t # <<>> /\ Head(t) \in Fences

\* .replace(/^fence json\n/, ''), .replace(/^fence\n/, ''),
\* .replace(/\nfence$/, '')
replaceOpening(t, fence) ==
    IF Len(t) >= 2 /\ t[1] = fence /\ t[2] = Newline THEN SubSeq(t, 3, Len(t))
    ELSE t
replaceClosing(t) ==
    IF Len(t) >= 2 /\ t[Len(t) - 1] = Newline /\ t[Len(t)] = "fence"
    THEN SubSeq(t, 1, Len(t) - 2)
    ELSE t

\* lines 86-93
cleanedContent(aiContent) ==
    IF startsWithFence(aiContent)
    THEN trim(replaceClosing(replaceOpening(replaceOpening(aiContent, "fence-json"),
                                            "fence")))
    ELSE aiContent

\* JSON.parse: the kind of the value, or "throws"; white space around the
\* value is allowed
JSONparse(t) ==
    LET u == trim(t)
    IN  IF Len(u) = 1 /\ u[1] \in Bodies \ {"malformed"} THEN u[1] ELSE "throws"

\* typeof parsedMealPlan !== "object" || parsedMealPlan === null
typeofObject(kind) == kind \in {"object", "array"}

\* the request arrives and the prompt is sent: openai.chat.completions.create
MealRequest ==
    /\ meal.pc = "idle"
    /\ meal' = [meal EXCEPT !.pc = "awaiting", !.calls = @ + 1]
    /\ UNCHANGED <<now, profiles, subs, rzp, last, ticks, steps, cp, race>>

\* the call throws: the outer catch answers 500
MealProviderFails ==
    /\ meal.pc = "awaiting"
    /\ meal' = [meal EXCEPT !.pc = "done", !.status = 500,
                            !.error = "Failed to generate meal plan. Please try again later."]
    /\ UNCHANGED <<now, profiles, subs, rzp, last, ticks, steps, cp, race>>

\* the provider answers with content; lines 83-117
MealRespond(content) ==
    /\ meal.pc = "awaiting"
    /\ LET aiContent == trim(content)
           parsed == JSONparse(cleanedContent(aiContent))
       IN  meal' =
             IF parsed = "throws"
             THEN [meal EXCEPT !.pc = "done", !.aiContent = content, !.status = 500,
                               !.error = "Failed to parse meal plan. Please try again."]
             ELSE IF ~typeofObject(parsed)
             THEN [meal EXCEPT !.pc = "done", !.aiContent = content, !.status = 500,
                               !.error = "Failed to generate meal plan. Please try again later."]
             ELSE [meal EXCEPT !.pc = "done", !.aiContent = content, !.status = 200,
                               !.mealPlan = parsed]
    /\ UNCHANGED <<now, profiles, subs, rzp, last, ticks, steps, cp, race>>

InitMeal ==
    /\ now \in StartDates
    /\ profiles = ProvisionedProfiles
    /\ subs = <<>>
    /\ rzp = [s \in SubIds |-> NoRzp]
    /\ last = Reply("init", 0, "", <<>>)
    /\ ticks = 0
    /\ steps = 0
    /\ cp = [r \in ProfileReqs |-> CpIdle]
    /\ race = RaceIdle
    /\ meal = MealIdle

NextMeal ==
    \/ MealRequest
    \/ MealProviderFails
    \/ \E content \in AiContents : MealRespond(content)

SpecMeal == InitMeal /\ [][NextMeal]_vars

-----------------------------------------------------------------------------
(* Properties *)

RowsOfIdentity(id) == { p \in profiles : p.userId = id }

\* C1: a create-profile call that starts after another call for the same
\* identity has succeeded answers "Profile already exists." with status 200,
\* writes nothing, and exactly one Profile row exists for that identity.
C1_SecondCallAlreadyExists ==
    \A r \in ProfileReqs :
        (cp[r].pc = "done" /\ cp[r].after) =>
            /\ cp[r].msg = "Profile already exists."
            /\ cp[r].status = 200
            /\ cp[r].writes = 0
            /\ Cardinality(RowsOfIdentity(cp[r].ident.id)) = 1

C1_Witness ==
    \E r \in ProfileReqs :
        /\ cp[r].pc = "done"
        /\ cp[r].after
        /\ \E r2 \in ProfileReqs : cp[r2].pc = "done" /\ cp[r2].writes = 1
                                   /\ cp[r2].ident = cp[r].ident

\* C2: every finished create-profile call of an identity with an email
\* address answered with a success message ("created" or "already exists"),
\* also when the calls interleave, and exactly one Profile row exists for it.
C2_AlwaysSuccess ==
    \A r \in ProfileReqs :
        (cp[r].pc = "done" /\ cp[r].ident.email # "") =>
            /\ cp[r].msg \in {"Profile created successfully.",
                              "Profile already exists."}
            /\ Cardinality(RowsOfIdentity(cp[r].ident.id)) = 1

HasActivePeriod(userId) ==
    \E i \in 1 .. Len(subs) :
        /\ subs[i].userId = userId
        /\ subs[i].status = "active"
        /\ subs[i].endDate # NoDate
        /\ DateKey(subs[i].endDate) >= DateKey(now)

C4_AtMostOneActivePeriod ==
    \A u \in Users :
        Cardinality({ i \in 1 .. Len(subs) :
                        /\ subs[i].userId = u
                        /\ subs[i].status = "active"
                        /\ subs[i].endDate # NoDate
                        /\ DateKey(subs[i].endDate) > DateKey(now) }) <= 1

Activated(l) == l.op = "verify" /\ l.msg = "Subscription verified and activated"

\* C5: a second successful redirect verification of the same subscription
\* leaves the Subscription rows and the Profiles as the first one left them.
C5_VerifyTwiceIsVerifyOnce ==
    [][ (Activated(last) /\ Activated(last') /\ last'.sid = last.sid)
        => (subs' = subs /\ profiles' = profiles) ]_vars


\* the signatures a request can carry for a body: the right one, one made
\* with another key, none
Signatures(body) == { Hmac(WebhookSecret, body), Hmac("guess", body), <<>> }

\* C6: a webhook request whose signature is not the HMAC of its body under
\* the webhook secret is answered 401 and changes no Subscription or Profile
\* row, whichever handler receives it and whatever event it carries.
C6_BadSignatureRejected ==
    /\ \A h \in {1, 2}, event \in Events, s \in SubIds :
          \A signature \in Signatures(Body(event, s)) :
              signature # Hmac(WebhookSecret, Body(event, s)) =>
                  LET o == WebhookOut(h, Body(event, s), signature)
                  IN  /\ o.last.status = 401
                      /\ o.subs = subs
                      /\ o.profiles = profiles
    /\ (last.op = "webhook" /\ last.status = 401) => ~last.changed
    /\ (last.op = "webhook" /\ last.status # 401) =>
          \* only events the provider has emitted get past the check
          (last.sid = 0 \/ last.echo \in rzp[last.sid].events)

C6_Witness ==
    /\ last.op = "webhook"
    /\ last.status = 401
    /\ last.echo = "subscription.activated"
    /\ \E i \in 1 .. Len(subs) :
          subs[i].razorpaySubscriptionId = last.sid /\ subs[i].status # "active"

CompletedMsg ==
    "Subscription is completed. Your access will remain until the end date."

\* C7: a cancellation answered "subscription is completed" (the provider
\* reported completed, by the status fetch or by the cancel error) sets the
\* row to cancelled and leaves every Profile as it was.
C7_CompletedKeepsProfile ==
    [][ (last'.op = "cancel" /\ last'.msg = CompletedMsg /\ last' # last) =>
            /\ \E i \in 1 .. Len(subs') :
                  /\ subs'[i].razorpaySubscriptionId = last'.sid
                  /\ subs'[i].status = "cancelled"
            /\ profiles' = profiles ]_vars

\* C8: when the provider accepts the cancel call, cancelSubscription answers
\* success, the row is cancelled and the owner's Profile has
\* subscriptionActive false, no tier and no external reference.
C8_CancelDeactivates ==
    /\ \A sid \in SubIds, fetchOk \in BOOLEAN :
          \A i \in 1 .. Len(subs) :
              (subs[i].razorpaySubscriptionId = sid
               /\ rzp[sid].status \in Cancellable) =>
                  LET u == subs[i].userId
                      o == CancelSubscriptionOut(sid, u, fetchOk, TRUE, "ok")
                  IN  /\ o.last.status = 200
                      /\ o.last.msg = "Subscription cancelled successfully"
                      /\ o.subs[i].status = "cancelled"
                      /\ \A p \in o.profiles :
                            p.userId = u =>
                                /\ ~p.subscriptionActive
                                /\ p.subscriptionTier = "null"
                                /\ p.stripeSubscriptionId = 0
    /\ (last.op = "cancel" /\ last.msg = "Subscription cancelled successfully") =>
          \E i \in 1 .. Len(subs) :
              /\ subs[i].razorpaySubscriptionId = last.sid
              /\ subs[i].status = "cancelled"
              /\ \A p \in profiles :
                    p.userId = subs[i].userId =>
                        /\ ~p.subscriptionActive
                        /\ p.subscriptionTier = "null"
                        /\ p.stripeSubscriptionId = 0

C8_Witness ==
    /\ last.op = "cancel"
    /\ last.msg = "Subscription cancelled successfully"
    /\ last.calls = <<"fetch", "cancel">>
    /\ \E i \in 1 .. Len(subs) :
          /\ subs[i].razorpaySubscriptionId = last.sid
          /\ subs[i].endDate # NoDate

\* C9: cancelSubscription for a subscription identifier and a user with no
\* Subscription row carrying both answers 404, makes no gateway call and
\* changes no row.
C9_NotOwnedNotFound ==
    /\ \A sid \in SubIds, userId \in Users, fetchOk \in BOOLEAN, cancelOk \in BOOLEAN,
          outcome \in CancelErrors \cup {"ok"} :
          (~\E i \in 1 .. Len(subs) :
                subs[i].razorpaySubscriptionId = sid /\ subs[i].userId = userId) =>
              LET o == CancelSubscriptionOut(sid, userId, fetchOk, cancelOk, outcome)
              IN  /\ o.last.status = 404
                  /\ o.last.calls = <<>>
                  /\ o.subs = subs
                  /\ o.profiles = profiles
                  /\ o.rzp = rzp
    /\ (last.op = "cancel" /\ last.status = 404) =>
          (~last.changed /\ last.calls = <<>>)

C9_Witness ==
    /\ last.op = "cancel"
    /\ last.status = 404
    /\ \E i \in 1 .. Len(subs) : subs[i].razorpaySubscriptionId = last.sid

\* the calendar, written down independently of the Date object
DayAfter(d) ==
    IF d[3] < DaysInMonth(d[1], d[2]) THEN <<d[1], d[2], d[3] + 1>>
    ELSE IF d[2] < 12 THEN <<d[1], d[2] + 1, 1>>
    ELSE <<d[1] + 1, 1, 1>>

RECURSIVE PlusDays(_, _)
PlusDays(d, n) == IF n = 0 THEN d ELSE PlusDays(DayAfter(d), n - 1)

Min(a, b) == IF a <= b THEN a ELSE b

\* the same day of the following month, or that month's last day
PlusOneMonth(d) ==
    LET y == IF d[2] = 12 THEN d[1] + 1 ELSE d[1]
        m == IF d[2] = 12 THEN 1 ELSE d[2] + 1
    IN  <<y, m, Min(d[3], DaysInMonth(y, m))>>

PlusOneYear(d) == <<d[1] + 1, d[2], Min(d[3], DaysInMonth(d[1] + 1, d[2]))>>

PlanPeriodEnd(start, planType) ==
    CASE planType = "week" -> PlusDays(start, 7)
      [] planType = "month" -> PlusOneMonth(start)
      [] planType = "year" -> PlusOneYear(start)
      [] OTHER -> PlusOneMonth(start)

\* C10: every row activated by redirect verification, subscription.activated
\* or getStatus has an end date equal to its start date plus 7 days (week),
\* one calendar month (month, and any other plan type) or one calendar year
\* (year).
C10_EndDateIsPlanPeriod ==
    \A i \in 1 .. Len(subs) :
        (subs[i].status = "active" /\ subs[i].startDate # NoDate) =>
            subs[i].endDate = PlanPeriodEnd(subs[i].startDate, subs[i].planType)


-----------------------------------------------------------------------------
(* getStatus *)

\* the user's most recent row in created, authenticated or pending (0: none)
LatestPending(userId) == Latest(PendingRows(subs, userId))

\* the provider, reachable, reports that row's subscription active or completed
ProviderPaid(p) ==
    LET sid == subs[p].razorpaySubscriptionId
    IN  sid \in SubIds /\ rzp[sid].status \in {"active", "completed"}

\* what the claim says getStatus does with row p of the user
Promoted(o, userId, p) ==
    /\ o.subs[p].status = "active"
    /\ o.subs[p].startDate = now
    /\ o.subs[p].endDate # NoDate
    /\ DateKey(o.subs[p].endDate) > DateKey(now)
    /\ subs[p].planType = "week" => o.subs[p].endDate = PlusDays(now, 7)
    /\ subs[p].planType # "week" =>
          /\ DateKey(o.subs[p].endDate) >= DateKey(PlusOneMonth(now))
          /\ DateKey(o.subs[p].endDate) <= DateKey(PlusDays(PlusOneMonth(now), 3))
    /\ \A q \in o.profiles :
          q.userId = userId =>
              q.subscriptionActive /\ q.subscriptionTier = subs[p].planType
    /\ o.last.isActive
    /\ ~o.last.isPending
    /\ o.last.tier = subs[p].planType

\* C11 as stated: getStatus for a user whose most recent pending-family row
\* the provider reports active or completed sets that row active with an end
\* date computed from its plan type, sets the Profile active with the row's
\* plan type as tier, and answers isActive, not isPending, with that tier.
C11_PromotesPending ==
    \A userId \in Users :
        LET p == LatestPending(userId)
        IN  (p # 0 /\ ProviderPaid(p)) =>
                Promoted(GetStatusOut(userId, TRUE), userId, p)

\* C11 amended: the same, for a user who has no active or completed row whose
\* end date is not before now (step 1 of getStatus answers from such a row
\* and leaves the pending row alone).
C11_PromotesPendingIfNoActive ==
    /\ \A userId \in Users :
          LET p == LatestPending(userId)
          IN  (/\ p # 0
               /\ ProviderPaid(p)
               /\ ActiveOrCompletedNow(subs, userId, now) = {}) =>
                  Promoted(GetStatusOut(userId, TRUE), userId, p)
    /\ (last.op = "status" /\ last.msg = "active" /\ last.calls = <<"fetch">>) =>
          \E i \in 1 .. Len(subs) :
              /\ subs[i].razorpaySubscriptionId = last.sid
              /\ subs[i].status = "active"
              /\ subs[i].planType = last.tier
              /\ \A q \in profiles :
                    q.userId = subs[i].userId =>
                        q.subscriptionActive /\ q.subscriptionTier = last.tier

C11_Witness ==
    /\ last.op = "status"
    /\ last.msg = "active"
    /\ last.calls = <<"fetch">>
    /\ last.changed
    /\ last.isActive
    /\ \E i \in 1 .. Len(subs) :
          subs[i].razorpaySubscriptionId = last.sid /\ subs[i].status = "active"


\* the user has neither a current row nor a pending-family row
NothingCurrent(userId) ==
    \A i \in 1 .. Len(subs) :
        subs[i].userId = userId =>
            /\ subs[i].status \notin {"created", "authenticated", "pending"}
            /\ subs[i].status \in {"active", "completed"} =>
                  (subs[i].endDate = NoDate
                   \/ DateKey(subs[i].endDate) < DateKey(now))

\* C12: getStatus for a user with no active or completed row whose end date
\* is not before now and no row in created, authenticated or pending answers
\* isActive false and isPending false, calls the gateway not at all and
\* changes no row; no answer of getStatus has isActive and isPending both.
C12_NothingCurrentInactive ==
    /\ \A userId \in UserInputs \ {""}, gwOk \in BOOLEAN :
          LET o == GetStatusOut(userId, gwOk)
          IN  /\ ~(o.last.isActive /\ o.last.isPending)
              /\ NothingCurrent(userId) =>
                    /\ o.last.status = 200
                    /\ ~o.last.isActive
                    /\ ~o.last.isPending
                    /\ o.last.calls = <<>>
                    /\ o.subs = subs
                    /\ o.profiles = profiles
                    /\ o.rzp = rzp
    /\ last.op = "status" => ~(last.isActive /\ last.isPending)
    /\ (last.op = "status" /\ last.msg = "inactive" /\ last.calls = <<>>) =>
          ~last.changed

\* an inactive answer while the table holds a row that has ended (cancelled,
\* halted, or active with its end date passed) and nobody has a current row
C12_Witness ==
    /\ last.op = "status"
    /\ last.msg = "inactive"
    /\ last.calls = <<>>
    /\ \A userId \in Users : NothingCurrent(userId)
    /\ \E i \in 1 .. Len(subs) :
          \/ subs[i].status \in {"cancelled", "halted"}
          \/ subs[i].status = "active" /\ ~DateGte(subs[i].endDate, now)


\* the user's most recent unresolved row is in created, authenticated or
\* pending: getStatus reaches the gateway fetch for it
FetchesFor(userId) ==
    /\ ActiveOrCompletedNow(subs, userId, now) = {}
    /\ LatestPending(userId) # 0

\* C13: when the gateway fetch fails during getStatus for a user whose most
\* recent unresolved row is in created, authenticated or pending, no row is
\* changed and the answer is not an error but the row's last known local
\* state: pending.
C13_FetchFailureAnswersPending ==
    [][ \A userId \in Users :
            (FetchesFor(userId) /\ GetStatus(userId, FALSE)) =>
                /\ subs' = subs
                /\ profiles' = profiles
                /\ last'.status = 200
                /\ last'.isPending
                /\ ~last'.isActive ]_vars


\* the user's most recent Subscription row, by creation order (0: none)
MostRecentRow(userId) ==
    Latest({ i \in 1 .. Len(subs) : subs[i].userId = userId })

\* the local status that mirrors a provider status
Mirror(status) == IF status \in {"active", "completed"} THEN "active" ELSE status

\* local and provider status agree; the statuses that getStatus answers as
\* pending (created, authenticated, pending) are taken to agree with each other
Agrees(local, provider) ==
    \/ local = Mirror(provider)
    \/ local \in PendingFamily /\ provider \in PendingFamily

\* C14: after every getStatus that completes with the gateway reachable, the
\* local status of the user's most recent subscription mirrors the provider's
\* status of it (active and completed as active, any other status verbatim),
\* also when the row was active locally and the provider has since cancelled,
\* halted or expired the subscription.
C14_StatusQuerySelfHeals ==
    [][ \A userId \in Users :
            LET m == MostRecentRow(userId)
            IN  (/\ m # 0
                 /\ subs[m].razorpaySubscriptionId \in SubIds
                 /\ GetStatus(userId, TRUE)) =>
                    Agrees(subs'[m].status,
                           rzp[subs[m].razorpaySubscriptionId].status) ]_vars


-----------------------------------------------------------------------------
(* Webhook deliveries *)

\* what the claim compares: each subscription's local status and each
\* Profile's active flag
StatusView(db) ==
    [ status |-> { <<db.subs[i].razorpaySubscriptionId, db.subs[i].status>> :
                      i \in 1 .. Len(db.subs) },
      active |-> { <<q.userId, q.subscriptionActive>> : q \in db.profiles } ]

\* a validly signed delivery of event e about subscription s, handled
Delivered(h, db, e, s) == Dispatch(h, db, Body(e, s), now)

\* C15: the local Subscription status and the Profile active flag after the
\* events the provider has emitted for one subscription have been delivered
\* do not depend on the order of delivery, and a second delivery of the same
\* event changes nothing further.
C15_WebhookOrderIndependent ==
    \A h \in {1, 2}, s \in SubIds :
        \A e1 \in rzp[s].events, e2 \in rzp[s].events :
            LET db == Db(subs, profiles)
                d1 == Delivered(h, db, e1, s)
            IN  /\ StatusView(Delivered(h, d1, e2, s))
                      = StatusView(Delivered(h, Delivered(h, db, e2, s), e1, s))
                /\ StatusView(Delivered(h, d1, e1, s)) = StatusView(d1)


-----------------------------------------------------------------------------
(* Recovery from a handler that stopped *)

\* C16: when redirect verification has stopped after writing the Subscription
\* row as active and before updating the Profile, the next getStatus of that
\* user leaves the Profile with subscriptionActive true and the tier equal to
\* the subscription's plan type.
C16_StatusQueryRepairsProfile ==
    [][ \A userId \in Users, gwOk \in BOOLEAN :
            \A i \in 1 .. Len(subs) :
                (/\ last.op = "verify-stopped"
                 /\ subs[i].razorpaySubscriptionId = last.sid
                 /\ subs[i].userId = userId
                 /\ GetStatus(userId, gwOk)) =>
                    \A q \in profiles' :
                        q.userId = userId =>
                            /\ q.subscriptionActive
                            /\ q.subscriptionTier = subs[i].planType ]_vars


-----------------------------------------------------------------------------
(* Concurrent requests *)

\* the outcomes of the two requests run one after the other, in either order
SerialOutcomes ==
    LET r1 == race.reqs[1]
        r2 == race.reqs[2]
    IN  { StatusView(RunAlone(r2, RunAlone(r1, race.sys0))),
          StatusView(RunAlone(r1, RunAlone(r2, race.sys0))) }

\* C17: when two requests for the same user have run with their persistence
\* steps interleaved, the Subscription statuses and the Profile active flags
\* are those that running the two requests one after the other, in one of the
\* two orders, produces.
C17_InterleavingIsSerial ==
    (race.reqs # <<>> /\ RaceDone) =>
        StatusView(Sys(subs, profiles, rzp)) \in SerialOutcomes


-----------------------------------------------------------------------------
(* createSubscription *)

\* the provider-side subscriptions a step has made
MadeAtProvider == { s \in SubIds : rzp[s].status = "none" /\ rzp'[s].status # "none" }

\* C18: a successful createSubscription makes exactly one provider-side
\* subscription, with a single billing cycle, and inserts exactly one
\* Subscription row, with the provider's initial status, the provider's
\* identifier and the recurring flag false; and whenever the call has made the
\* provider-side subscription, the row exists when the call returns.
C18_CreateMakesOneOfEach ==
    [][ \A planType \in PlanInputs, userId \in UserInputs, email \in {"", "e@mail"},
           gwOk \in BOOLEAN :
            CreateSubscription(planType, userId, email, gwOk) =>
                /\ last'.status = 200 =>
                      /\ Cardinality(MadeAtProvider) = 1
                      /\ Len(subs') = Len(subs) + 1
                      /\ SubSeq(subs', 1, Len(subs)) = subs
                      /\ \A s \in MadeAtProvider :
                            LET row == subs'[Len(subs')]
                            IN  /\ rzp'[s].total_count = 1
                                /\ row.razorpaySubscriptionId = s
                                /\ row.status = rzp'[s].status
                                /\ row.userId = userId
                                /\ ~row.isRecurring
                /\ \A s \in MadeAtProvider : RowOf(subs', s) # 0 ]_vars


-----------------------------------------------------------------------------
(* Redirect verification *)

\* C19: redirect verification of a subscription whose provider status is not
\* active or completed changes no Subscription or Profile row; it answers
\* "pending" with the identifier for created and authenticated, "payment was
\* not completed" with the identifier for cancelled, and for every other
\* status (pending, halted, expired) a failure that echoes the status.
C19_UnpaidVerifyChangesNothing ==
    /\ \A sid \in SubIds :
          LET st == rzp[sid].status
              o == VerifyPaymentOut(sid, TRUE)
          IN  st \notin {"none", "active", "completed"} =>
                  /\ o.subs = subs
                  /\ o.profiles = profiles
                  /\ o.last.sid = sid
                  /\ st \in {"created", "authenticated"} =>
                        o.last.msg = "Subscription payment is pending"
                  /\ st = "cancelled" => o.last.msg = "Payment was not completed"
                  /\ st \in {"pending", "halted", "expired"} =>
                        (o.last.msg = "Subscription status" /\ o.last.echo = st)
    /\ (/\ last.op = "verify"
        /\ last.msg \in {"Subscription payment is pending",
                         "Payment was not completed", "Subscription status"})
          => ~last.changed

C19_Witness ==
    /\ last.op = "verify"
    /\ last.msg = "Subscription status"
    /\ last.echo \in {"pending", "halted", "expired"}
    /\ rzp[last.sid].status = last.echo
    /\ RowOf(subs, last.sid) # 0


\* C20: redirect verification of a subscription the provider reports active
\* or completed makes the local row active with a computed end date and the
\* owner's Profile active when the local row for the identifier is not
\* cancelled; when that row is cancelled it changes nothing and does not
\* answer success.
C20_PaidVerifyUnlessCancelled ==
    /\ \A sid \in SubIds :
          LET o == VerifyPaymentOut(sid, TRUE)
              i == RowOf(subs, sid)
              j == RowOf(o.subs, sid)
          IN  rzp[sid].status \in {"active", "completed"} =>
                  IF i # 0 /\ subs[i].status = "cancelled"
                  THEN /\ o.subs = subs
                       /\ o.profiles = profiles
                       /\ o.last.msg # "Subscription verified and activated"
                  ELSE /\ j # 0
                       /\ o.subs[j].status = "active"
                       /\ o.subs[j].startDate = now
                       /\ o.subs[j].endDate # NoDate
                       /\ DateKey(o.subs[j].endDate) > DateKey(now)
                       /\ \A q \in o.profiles :
                             q.userId = rzp[sid].userId => q.subscriptionActive
                       /\ o.last.msg = "Subscription verified and activated"
    /\ (last.op = "verify" /\ last.msg = "Subscription verified and activated") =>
          /\ RowOf(subs, last.sid) # 0
          /\ subs[RowOf(subs, last.sid)].status = "active"
    /\ (last.op = "verify" /\ last.msg = "Subscription status") => ~last.changed

C20_Witness ==
    /\ last.op = "verify"
    /\ last.msg = "Subscription status"
    /\ last.echo \in {"active", "completed"}
    /\ RowOf(subs, last.sid) # 0
    /\ subs[RowOf(subs, last.sid)].status = "cancelled"


-----------------------------------------------------------------------------
(* getStatus, the remaining provider statuses *)

\* the provider statuses that are neither paid nor pending
OtherStatuses == {"halted", "cancelled", "expired"}

\* C21: when getStatus fetches the user's most recent pending-family row and
\* the provider reports a status that is none of active, completed, created,
\* authenticated and pending, the row's status becomes the provider's value,
\* every Profile stays as it is and the answer is inactive.
C21_OtherStatusMirrored ==
    /\ \A userId \in Users :
          LET p == LatestPending(userId)
              o == GetStatusOut(userId, TRUE)
          IN  (/\ p # 0
               /\ ActiveOrCompletedNow(subs, userId, now) = {}
               /\ subs[p].status \in {"created", "authenticated", "pending"}
               /\ subs[p].razorpaySubscriptionId \in SubIds
               /\ rzp[subs[p].razorpaySubscriptionId].status \in OtherStatuses) =>
                  /\ o.subs = [subs EXCEPT ![p] =
                        [@ EXCEPT !.status =
                            rzp[subs[p].razorpaySubscriptionId].status]]
                  /\ o.profiles = profiles
                  /\ o.last.status = 200
                  /\ ~o.last.isActive
                  /\ ~o.last.isPending
    /\ (last.op = "status" /\ last.changed /\ last.msg = "inactive") =>
          \E i \in 1 .. Len(subs) : subs[i].status \in OtherStatuses

C21_Witness ==
    /\ last.op = "status"
    /\ last.msg = "inactive"
    /\ last.calls = <<"fetch">>
    /\ last.changed
    /\ \E i \in 1 .. Len(subs) :
          /\ subs[i].status \in OtherStatuses
          /\ rzp[subs[i].razorpaySubscriptionId].status = subs[i].status


-----------------------------------------------------------------------------
(* Payment events *)

\* C22: a validly signed payment.failed event for a subscription that has a
\* local row sets that row's status to halted and the owner's Profile to
\* subscriptionActive false; an event without a subscription reference
\* changes nothing. Both handlers.
C22_PaymentFailedHalts ==
    /\ \A h \in {1, 2} :
          LET db == Db(subs, profiles)
          IN  /\ Delivered(h, db, "payment.failed", 0) = db
              /\ \A s \in SubIds :
                    LET i == RowOf(subs, s)
                        d == Delivered(h, db, "payment.failed", s)
                    IN  i # 0 =>
                            /\ d.subs[i].status = "halted"
                            /\ \A q \in d.profiles :
                                  q.userId = subs[i].userId => ~q.subscriptionActive
    /\ (/\ last.op = "webhook"
        /\ last.echo = "payment.failed"
        /\ last.status = 200) =>
          IF last.sid # 0 /\ RowOf(subs, last.sid) # 0
          THEN /\ subs[RowOf(subs, last.sid)].status = "halted"
               /\ \A q \in profiles :
                     q.userId = subs[RowOf(subs, last.sid)].userId
                         => ~q.subscriptionActive
          ELSE ~last.changed

\* payment.failed delivered for a subscription whose owner's Profile was active
C22_Witness ==
    /\ last.op = "webhook"
    /\ last.echo = "payment.failed"
    /\ last.status = 200
    /\ last.changed
    /\ last.sid # 0
    /\ RowOf(subs, last.sid) # 0
    /\ subs[RowOf(subs, last.sid)].status = "halted"
    /\ subs[RowOf(subs, last.sid)].endDate # NoDate
    /\ \E q \in profiles : q.userId = "u1" /\ q.subscriptionTier # "null"


\* C23: a validly signed payment.captured event changes one thing: on the row
\* with its subscription reference it records the payment reference and sets
\* the status to active; that row's dates, every other row and every Profile
\* stay as they are. Without a matching row or without a subscription
\* reference nothing changes. Both handlers.
C23_PaymentCapturedOneMutation ==
    /\ \A h \in {1, 2} :
          LET db == Db(subs, profiles)
          IN  /\ Delivered(h, db, "payment.captured", 0) = db
              /\ \A s \in SubIds :
                    LET i == RowOf(subs, s)
                        d == Delivered(h, db, "payment.captured", s)
                    IN  IF i = 0 THEN d = db
                        ELSE /\ d.profiles = profiles
                             /\ d.subs = [subs EXCEPT ![i] =
                                   [@ EXCEPT !.status = "active",
                                             !.razorpayPaymentId = "pay_1"]]
    /\ (/\ last.op = "webhook"
        /\ last.echo = "payment.captured"
        /\ last.status = 200
        /\ last.changed) =>
          /\ RowOf(subs, last.sid) # 0
          /\ subs[RowOf(subs, last.sid)].status = "active"
          /\ subs[RowOf(subs, last.sid)].razorpayPaymentId = "pay_1"

C23_Witness ==
    /\ last.op = "webhook"
    /\ last.echo = "payment.captured"
    /\ last.status = 200
    /\ last.changed
    /\ subs[RowOf(subs, last.sid)].status = "active"
    /\ subs[RowOf(subs, last.sid)].razorpayPaymentId = "pay_1"
    /\ \A q \in profiles : ~q.subscriptionActive


-----------------------------------------------------------------------------
(* resumePayment *)

\* the provider-side subscriptions that o has and the current state has not
MadeBy(o) == { s \in SubIds : rzp[s].status = "none" /\ o.rzp[s].status # "none" }

\* C24: resumePayment by the owner on a subscription the provider reports
\* cancelled or expired, with the gateway accepting the create call, makes
\* exactly one new provider subscription with the same plan, user and billing
\* cycles, inserts exactly one new row for it with the provider's initial
\* status, leaves every existing row and every Profile as they are, and
\* answers with the new subscription.
C24_ResumeCreatesNew ==
    /\ \A sid \in SubIds :
          LET i == RowOf(subs, sid)
          IN  (/\ i # 0
               /\ rzp[sid].status \in {"cancelled", "expired"}
               /\ rzp[sid].userId = subs[i].userId
               /\ \E s \in SubIds : rzp[s].status = "none") =>
                  LET o == ResumePaymentOut(sid, subs[i].userId, TRUE, TRUE)
                      row == o.subs[Len(o.subs)]
                  IN  /\ Cardinality(MadeBy(o)) = 1
                      /\ Len(o.subs) = Len(subs) + 1
                      /\ SubSeq(o.subs, 1, Len(subs)) = subs
                      /\ o.profiles = profiles
                      /\ o.last.status = 200
                      /\ o.last.msg = "New subscription created successfully"
                      /\ \A s \in SubIds \ MadeBy(o) : o.rzp[s] = rzp[s]
                      /\ \A s \in MadeBy(o) :
                            /\ o.rzp[s].planType = rzp[sid].planType
                            /\ o.rzp[s].userId = rzp[sid].userId
                            /\ o.rzp[s].total_count = rzp[sid].total_count
                            /\ row.razorpaySubscriptionId = s
                            /\ row.status = o.rzp[s].status
                            /\ row.userId = subs[i].userId
                            /\ row.planType = rzp[sid].planType
    /\ (last.op = "resume" /\ last.msg = "New subscription created successfully") =>
          /\ last.changed
          /\ rzp[last.sid].status \in {"cancelled", "expired"}
          /\ Len(subs) >= 2
          /\ subs[Len(subs)].status \in {"created", "authenticated", "pending"}

C24_Witness ==
    /\ last.op = "resume"
    /\ last.msg = "New subscription created successfully"
    /\ Len(subs) = 2
    /\ subs[2].status = "created"
    /\ rzp[subs[2].razorpaySubscriptionId].status = "created"
    /\ subs[1].razorpaySubscriptionId = last.sid


\* C25: resumePayment by the owner on a subscription whose provider status is
\* none of active, cancelled, expired, created, authenticated and pending
\* (halted, completed) answers with the "cannot resume" message as a normal
\* response, not an error, and changes no row.
C25_CannotResumeIsNoError ==
    [][ \A sid \in SubIds, createOk \in BOOLEAN :
            LET i == RowOf(subs, sid)
            IN  (/\ i # 0
                 /\ rzp[sid].userId = subs[i].userId
                 /\ rzp[sid].status \in {"halted", "completed"}
                 /\ ResumePayment(sid, subs[i].userId, TRUE, createOk)) =>
                    /\ subs' = subs
                    /\ profiles' = profiles
                    /\ last'.msg = "Cannot resume payment at this time"
                    /\ last'.status < 400 ]_vars


-----------------------------------------------------------------------------
(* Meal-plan generation *)

\* C26: a generate-mealplan request calls the text-generation provider
\* exactly once; when the output, freed of its code fence, does not parse as
\* JSON or parses to a value that is not a JSON object, the request is
\* answered with an error and no meal plan: a meal plan that is returned is a
\* JSON object.
C26_OnlyObjectsReturned ==
    meal.pc = "done" =>
        /\ meal.calls = 1
        /\ meal.status \in {200, 500}
        /\ meal.status = 500 <=> meal.mealPlan = "none"
        /\ meal.status = 200 => meal.mealPlan = "object"


-----------------------------------------------------------------------------
(* Implied properties of the subscription state *)

\* C27: every Subscription row whose status is active has an end date, so
\* that the status query's first step sees each locally active row as
\* current or as expired and never skips it; also after a payment.captured
\* event and after resumePayment on a subscription the provider reports
\* active.
C27_ActiveRowsHaveEndDate ==
    \A i \in 1..Len(subs) : subs[i].status = "active" => subs[i].endDate # NoDate

\* C28: once a row's status is cancelled, no later operation (redirect
\* verification, a subscription.activated or payment.captured event, the
\* status query, resumePayment) sets that row's status back to active.
C28_CancelledStaysCancelled ==
    [][ \A i \in 1..Len(subs) :
            subs[i].status = "cancelled" => subs'[i].status # "active" ]_vars

\* C29: between operations, a user's Profile says subscriptionActive exactly
\* when the user has a Subscription row with status active and an end date
\* not before now, the condition under which the status query answers
\* active; the flag is false again once the end date has passed or the row
\* was halted or cancelled.
C29_ProfileFlagMatchesRows ==
    \A q \in profiles :
        q.subscriptionActive <=> ActiveNow(subs, q.userId, now) # {}

\* the user's pending-family rows whose subscription the provider reports
\* active
PaidPending(userId) ==
    { i \in 1 .. Len(subs) :
        /\ subs[i].userId = userId
        /\ subs[i].status \in {"created", "authenticated", "pending"}
        /\ rzp[subs[i].razorpaySubscriptionId].status = "active" }

\* C30: when the provider reports active for some subscription of a user
\* whose row is locally created, authenticated or pending, status queries
\* with the gateway reachable and no webhook delivered eventually answer
\* active, also when the user has more recently created pending-family rows:
\* a query in such a state answers active or changes a row, so that no
\* query leaves the state as it is with another answer (it would repeat
\* that answer for ever).
C30_PollingFindsPaidRow ==
    \A userId \in Users :
        PaidPending(userId) # {} =>
            LET o == GetStatusOut(userId, TRUE)
            IN  o.last.isActive \/ o.subs # subs


====
